---- MODULE Spec2Model ----
(***************************************************************************)
(* Model of src/picking-trainer/picking-trainer-logic.js: the pure logic   *)
(* of the picking trainer (score query, migrations, history trimming,     *)
(* task generation, stock-aware slip generation, slip aggregation).        *)
(***************************************************************************)
EXTENDS Integers, Sequences, FiniteSets, TLC

VARIABLES
    pc,              \* position of the caller / of generateSlips' loops
    products,        \* the products argument (a JS array of Product objects)
    slipCount,       \* generateSlips' slipCount argument
    itemsPerSlip,    \* generateSlips' itemsPerSlip argument
    remainingStock,  \* the ledger { code: remaining } (a JS object)
    usedCodes,       \* the usedCodes argument: undefined or a Set of codes
    tasks,           \* generateSlips' tasks array of the slip being built
    slips,           \* generateSlips' slips array
    i,               \* generateSlips' outer loop counter
    j,               \* generateSlips' inner loop counter
    task,            \* the value the last task generator call returned
    before,          \* the ledger as it was when the last generator call began
    slotsAtStart,    \* per slip: products with remaining stock > 0 when it began
    history,         \* the stored practice history
    appended,        \* every entry ever handed to the store, in append order
    trimArg,         \* the argument of the last trimHistory call
    args,            \* the arguments of the last pure-function call
    ret              \* the value that call returned

vars == <<pc, products, slipCount, itemsPerSlip, remainingStock, usedCodes,
          tasks, slips, i, j, task, before, slotsAtStart,
          history, appended, trimArg, args, ret>>

slipVars == <<products, slipCount, itemsPerSlip, remainingStock, usedCodes,
              tasks, slips, i, j, task, before, slotsAtStart>>

histVars == <<history, appended, trimArg>>

callVars == <<args, ret>>

----------------------------------------------------------------------------
(* JavaScript values, tagged by type *)

Undefined == [tag |-> "undefined"]

Null == [tag |-> "null"]

Num(n) == [tag |-> "number", val |-> n]

Str(s) == [tag |-> "string", val |-> s]

Arr(s) == [tag |-> "array", val |-> s]

SetOf(S) == [tag |-> "Set", val |-> S]

Obj(r) == [tag |-> "object", val |-> r]

\* v is null or undefined: the case in which a ?? b yields b
Nullish(v) == v.tag \in {"undefined", "null"}

\* a ?? b
Coalesce(a, b) == IF Nullish(a) THEN b ELSE a

\* ToBoolean(v)
Truthy(v) ==
    CASE v.tag \in {"undefined", "null"} -> FALSE
      [] v.tag = "number" -> v.val # 0
      [] v.tag = "string" -> v.val # ""
      [] OTHER -> TRUE

\* a || b
OrElse(a, b) == IF Truthy(a) THEN a ELSE b

Min(a, b) == IF a <= b THEN a ELSE b

\* Math.min in place of Math.max
MathMin(xs) == CHOOSE m \in {xs[k] : k \in 1..Len(xs)} :
                   \A k \in 1..Len(xs) : m <= xs[k]

\* Math.max(...xs) of a non-empty array of numbers
MathMax(xs) == CHOOSE m \in {xs[k] : k \in 1..Len(xs)} :
                   \A k \in 1..Len(xs) : xs[k] <= m

\* The outcomes of Math.floor(Math.random() * n)
RandomBelow(n) == 0..(n - 1)

----------------------------------------------------------------------------
(* Program constants and bounds *)

\* the stock of a product whose stock field is null or undefined
DefaultStock == 99

\* the 3 of Math.floor(Math.random() * 3) + 1
QuantityRange == 3

\* the history cap of trimHistory
HistoryLimit == 500

MaxSlips == 2

MaxItems == 2

Codes == {"A", "B"}

\* a catalog holds at most as many products as there are codes; two of its
\* products may still carry the same code
MaxProducts == Cardinality(Codes)

StockValues == {Undefined, Null, Num(0), Num(2)}

Product == [code : Codes, stock : StockValues]

SeqsUpTo(S, n) == UNION {[1..m -> S] : m \in 0..n}

ProductLists == SeqsUpTo(Product, MaxProducts)

\* ledgers handed to a direct generateTaskWithStock call
LedgerValues == {-1, 0, 2}

Ledgers == UNION {[D -> LedgerValues] : D \in SUBSET Codes}

UsedCodeArgs == {Undefined} \cup {SetOf(S) : S \in SUBSET Codes}

----------------------------------------------------------------------------
(* Task generation *)

\* p.stock ?? 99
EffectiveStock(p) == Coalesce(p.stock, Num(DefaultStock)).val

\* remainingStock[code]
Lookup(ledger, code) ==
    IF code \in DOMAIN ledger THEN Num(ledger[code]) ELSE Undefined

\* remainingStock[p.code] ?? (p.stock ?? 99)
StockOf(ledger, p) ==
    Coalesce(Lookup(ledger, p.code), Coalesce(p.stock, Num(DefaultStock))).val

\* remainingStock[code] = v
Store(ledger, code, v) ==
    [c \in DOMAIN ledger \cup {code} |-> IF c = code THEN v ELSE ledger[c]]

\* Quantity without the Math.min clamp
QuantityUnclamped(roll, stock) == roll + 1

\* Quantity without the + 1
QuantityZeroBased(roll, stock) == Min(roll, stock)

\* Math.min(Math.floor(Math.random() * 3) + 1, stock), roll being the floor
Quantity(roll, stock) == Min(roll + 1, stock)

NewTask(product, quantity) ==
    [product |-> product, quantity |-> quantity,
     completed |-> FALSE, found |-> Null]

\* products.filter(p => (p.stock ?? 99) > 0)
AvailableRandom(ps) == SelectSeq(ps, LAMBDA p : EffectiveStock(p) > 0)

generateRandomTask(ps, pick, roll) ==
    LET available == AvailableRandom(ps) IN
    IF Len(available) = 0 THEN Null
    ELSE LET product == available[pick + 1]
             stock == EffectiveStock(product)
         IN Obj(NewTask(product, Quantity(roll, stock)))

\* NotUsed with the usedCodes filter left out
NotUsedIgnored(used, p) == TRUE

\* the usedCodes filter of generateTaskWithStock
NotUsed(used, p) == IF Truthy(used) THEN p.code \notin used.val ELSE TRUE

\* Available with the stock filter left out
AvailableAnyStock(ps, ledger, used) ==
    SelectSeq(ps, LAMBDA p : IF Truthy(used) THEN p.code \notin used.val ELSE TRUE)

\* the two filters of generateTaskWithStock
Available(ps, ledger, used) ==
    SelectSeq(SelectSeq(ps, LAMBDA p : StockOf(ledger, p) > 0),
              LAMBDA p : NotUsed(used, p))

\* the returned task and the ledger as the call leaves it
generateTaskWithStock(ps, ledger, used, pick, roll) ==
    LET available == Available(ps, ledger, used) IN
    IF Len(available) = 0 THEN [task |-> Null, remainingStock |-> ledger]
    ELSE LET product == available[pick + 1]
             stock == StockOf(ledger, product)
             quantity == Quantity(roll, stock)
         IN [task |-> Obj(NewTask(product, quantity)),
             remainingStock |-> Store(ledger, product.code, stock - quantity)]

\* the picks Math.floor(Math.random() * available.length) can make
Picks(available) == IF Len(available) = 0 THEN {0} ELSE RandomBelow(Len(available))

Rolls(available) == IF Len(available) = 0 THEN {0} ELSE RandomBelow(QuantityRange)

----------------------------------------------------------------------------
(* Slip generation *)

\* products.forEach(p => { remainingStock[p.code] = p.stock ?? 99; })
RECURSIVE InitialLedger(_)
InitialLedger(ps) ==
    IF Len(ps) = 0 THEN [c \in {} |-> 0]
    ELSE LET p == ps[Len(ps)]
         IN Store(InitialLedger(SubSeq(ps, 1, Len(ps) - 1)), p.code,
                  EffectiveStock(p))

\* 'slip-' + i
SlipId(n) == "slip-" \o ToString(n)

\* NewSlip numbering slipId from 1, like slipNumber
NewSlipOneBased(n, ts) ==
    [slipId |-> SlipId(n + 1), slipNumber |-> n + 1, tasks |-> ts,
     completed |-> FALSE]

NewSlip(n, ts) ==
    [slipId |-> SlipId(n), slipNumber |-> n + 1, tasks |-> ts,
     completed |-> FALSE]

\* products whose ledger entry is > 0
Stocked(ps, ledger) ==
    Cardinality({k \in 1..Len(ps) : StockOf(ledger, ps[k]) > 0})

NoLedger == [c \in {} |-> 0]

\* no generateSlips call has begun
SlipsIdle ==
    /\ slipCount = 0
    /\ itemsPerSlip = 0
    /\ remainingStock = NoLedger
    /\ usedCodes = Undefined
    /\ tasks = <<>>
    /\ slips = <<>>
    /\ i = 0
    /\ j = 0
    /\ task = Undefined
    /\ before = NoLedger
    /\ slotsAtStart = <<>>

\* nothing was stored in the history
HistoryIdle ==
    /\ history = <<>>
    /\ appended = <<>>
    /\ trimArg = <<>>

\* no pure function was called
CallsIdle ==
    /\ args = Undefined
    /\ ret = Undefined

Init ==
    /\ pc = "start"
    /\ products \in ProductLists
    /\ SlipsIdle
    /\ HistoryIdle
    /\ CallsIdle

\* generateSlips is entered: the ledger is built, the outer loop begins
GenerateSlipsBegin(n, m) ==
    /\ pc = "start"
    /\ pc' = "outer"
    /\ slipCount' = n
    /\ itemsPerSlip' = m
    /\ remainingStock' = InitialLedger(products)
    /\ before' = InitialLedger(products)
    /\ slips' = <<>>
    /\ i' = 0
    /\ UNCHANGED <<products, usedCodes, tasks, j, task, slotsAtStart>>
    /\ UNCHANGED histVars
    /\ UNCHANGED callVars

\* an outer iteration begins: const tasks = []; const usedCodes = new Set()
SlipBegin ==
    /\ pc = "outer"
    /\ i < slipCount
    /\ pc' = "inner"
    /\ tasks' = <<>>
    /\ usedCodes' = SetOf({})
    /\ j' = 0
    /\ slotsAtStart' = Append(slotsAtStart, Stocked(products, remainingStock))
    /\ UNCHANGED <<products, slipCount, itemsPerSlip, remainingStock, slips,
                   i, task, before>>
    /\ UNCHANGED histVars
    /\ UNCHANGED callVars

\* one inner iteration: a generateTaskWithStock call and the push of its task
SlipTask ==
    /\ pc = "inner"
    /\ j < itemsPerSlip
    /\ LET available == Available(products, remainingStock, usedCodes) IN
       \E pick \in Picks(available), roll \in Rolls(available) :
          LET r == generateTaskWithStock(products, remainingStock, usedCodes,
                                         pick, roll)
          IN /\ task' = r.task
             /\ before' = remainingStock
             /\ remainingStock' = r.remainingStock
             /\ IF Truthy(r.task)
                THEN /\ usedCodes' = SetOf(usedCodes.val \cup {r.task.val.product.code})
                     /\ tasks' = Append(tasks, r.task.val)
                ELSE UNCHANGED <<usedCodes, tasks>>
    /\ j' = j + 1
    /\ UNCHANGED <<pc, products, slipCount, itemsPerSlip, slips, i, slotsAtStart>>
    /\ UNCHANGED histVars
    /\ UNCHANGED callVars

\* the inner loop is over: slips.push({...})
SlipPush ==
    /\ pc = "inner"
    /\ j >= itemsPerSlip
    /\ slips' = Append(slips, NewSlip(i, tasks))
    /\ i' = i + 1
    /\ pc' = "outer"
    /\ UNCHANGED <<products, slipCount, itemsPerSlip, remainingStock, usedCodes,
                   tasks, j, task, before, slotsAtStart>>
    /\ UNCHANGED histVars
    /\ UNCHANGED callVars

\* return slips
GenerateSlipsReturn ==
    /\ pc = "outer"
    /\ i >= slipCount
    /\ pc' = "done"
    /\ UNCHANGED slipVars
    /\ UNCHANGED histVars
    /\ UNCHANGED callVars

\* a direct generateRandomTask(products) call
CallGenerateRandomTask ==
    /\ pc = "start"
    /\ LET available == AvailableRandom(products) IN
       \E pick \in Picks(available), roll \in Rolls(available) :
          task' = generateRandomTask(products, pick, roll)
    /\ pc' = "randomTask"
    /\ UNCHANGED <<products, slipCount, itemsPerSlip, remainingStock, usedCodes,
                   tasks, slips, i, j, before, slotsAtStart>>
    /\ UNCHANGED histVars
    /\ UNCHANGED callVars

\* a direct generateTaskWithStock(products, remainingStock, usedCodes) call
CallGenerateTaskWithStock ==
    /\ pc = "start"
    /\ \E ledger \in Ledgers, used \in UsedCodeArgs :
          LET available == Available(products, ledger, used) IN
          \E pick \in Picks(available), roll \in Rolls(available) :
             LET r == generateTaskWithStock(products, ledger, used, pick, roll)
             IN /\ task' = r.task
                /\ before' = ledger
                /\ usedCodes' = used
                /\ remainingStock' = r.remainingStock
    /\ pc' = "stockTask"
    /\ UNCHANGED <<products, slipCount, itemsPerSlip, tasks, slips, i, j,
                   slotsAtStart>>
    /\ UNCHANGED histVars
    /\ UNCHANGED callVars

Next ==
    \/ \E n \in 0..MaxSlips, m \in 0..MaxItems : GenerateSlipsBegin(n, m)
    \/ SlipBegin
    \/ SlipTask
    \/ SlipPush
    \/ GenerateSlipsReturn
    \/ CallGenerateRandomTask
    \/ CallGenerateTaskWithStock

Spec == Init /\ [][Next]_vars

----------------------------------------------------------------------------
(* History maintenance *)

\* how far beyond HistoryLimit the stored and the restored histories go
Overshoot == 3

\* history.slice(-n): from index max(length - n, 0) to the end
SliceLast(h, n) ==
    LET start == IF Len(h) - n < 0 THEN 0 ELSE Len(h) - n
    IN SubSeq(h, start + 1, Len(h))

\* trimHistory keeping the first HistoryLimit entries: slice(0, 500)
trimHistoryOldest(h) ==
    IF Len(h) <= HistoryLimit THEN h ELSE SubSeq(h, 1, HistoryLimit)

trimHistory(h) ==
    IF Len(h) <= HistoryLimit THEN h ELSE SliceLast(h, HistoryLimit)

\* entries are numbered in the order they are created
Entries(n) == [k \in 1..n |-> k]

RestoreLengths == (HistoryLimit - Overshoot)..(HistoryLimit + Overshoot)

InitHistory ==
    /\ pc = "start"
    /\ products = <<>>
    /\ SlipsIdle
    /\ HistoryIdle
    /\ CallsIdle

\* a persisted history of n entries is loaded and trimmed
RestoreHistory(n) ==
    /\ pc = "start"
    /\ appended' = Entries(n)
    /\ trimArg' = Entries(n)
    /\ history' = trimHistory(Entries(n))
    /\ pc' = "stored"
    /\ UNCHANGED slipVars
    /\ UNCHANGED callVars

\* a finished session is appended, and the history trimmed and stored
AppendEntry ==
    /\ pc \in {"start", "stored"}
    /\ Len(appended) < HistoryLimit + Overshoot
    /\ LET entry == Len(appended) + 1
           h == Append(history, entry)
       IN /\ appended' = Append(appended, entry)
          /\ trimArg' = h
          /\ history' = trimHistory(h)
    /\ pc' = "stored"
    /\ UNCHANGED slipVars
    /\ UNCHANGED callVars

NextHistory ==
    \/ \E n \in RestoreLengths : RestoreHistory(n)
    \/ AppendEntry

SpecHistory == InitHistory /\ [][NextHistory]_vars

----------------------------------------------------------------------------
(* Score query, migrations, slip aggregation: calls of pure functions *)

MaxEntries == 2

MaxMigrated == 2

MaxJudged == 5

Users == {"u1", "u2"}

Modes == {"normal", "timeAttack"}

\* history entries as the trainer records them
NormalEntries ==
    [userId : Users, mode : {Str("normal")}, score : {1, 2},
     totalAnswered : {3}, timeLimit : {Undefined}]

TimeAttackEntries ==
    [userId : Users, mode : {Str("timeAttack")}, score : {1, 2},
     totalAnswered : {1, 3}, timeLimit : {Num(60), Num(120)}]

\* the options argument: absent, {}, { timeLimit: 0 }, { timeLimit: 60 }
OptionArgs ==
    {Undefined} \cup {Obj([timeLimit |-> l]) : l \in {Undefined, Num(0), Num(60)}}

ScoreCalls ==
    [fn : {"getBestScore"},
     history : SeqsUpTo(NormalEntries \cup TimeAttackEntries, MaxEntries),
     userId : Users, mode : Modes, options : OptionArgs]

\* history entries as older versions stored them: mode may be missing
StoredEntries ==
    [userId : {"u1"},
     mode : {Undefined, Null, Str(""), Str("normal"), Str("timeAttack")},
     score : {1, 2}, totalAnswered : {3}, timeLimit : {Undefined}]

\* products as older versions stored them: stock may be missing
StoredProducts ==
    [code : Codes, stock : {Undefined, Null, Num(0), Num(2), Num(DefaultStock)}]

MigrateCalls ==
    [fn : {"migrateHistory"}, x : SeqsUpTo(StoredEntries, MaxMigrated)]
    \cup [fn : {"migrateProducts"}, x : SeqsUpTo(StoredProducts, MaxMigrated)]

\* h.userId === userId && h.mode === mode
MatchesUserMode(h, userId, mode) == h.userId = userId /\ h.mode = Str(mode)

\* mode === 'timeAttack' && options && options.timeLimit
ByTimeLimit(mode, options) ==
    /\ mode = "timeAttack"
    /\ Truthy(options)
    /\ Truthy(options.val.timeLimit)

\* filtered.map(h => h.score)
Scores(hs) == [k \in 1..Len(hs) |-> hs[k].score]

\* filtered.map(h => h.totalAnswered)
TotalsAnswered(hs) == [k \in 1..Len(hs) |-> hs[k].totalAnswered]

getBestScore(hs, userId, mode, options) ==
    LET filtered == SelectSeq(hs, LAMBDA h : MatchesUserMode(h, userId, mode)) IN
    IF ByTimeLimit(mode, options)
    THEN LET limited == SelectSeq(filtered,
                            LAMBDA h : h.timeLimit = options.val.timeLimit)
         IN IF Len(limited) = 0 THEN Null
            ELSE Num(MathMax(TotalsAnswered(limited)))
    ELSE IF Len(filtered) = 0 THEN Null
         ELSE Num(MathMax(Scores(filtered)))

\* { ...h, mode: h.mode || 'normal' }
MigratedEntry(h) == [h EXCEPT !.mode = OrElse(h.mode, Str("normal"))]

migrateHistory(hs) == [k \in 1..Len(hs) |-> MigratedEntry(hs[k])]

\* MigratedProduct with || in place of ??
MigratedProductFalsy(p) == [p EXCEPT !.stock = OrElse(p.stock, Num(DefaultStock))]

\* { ...p, stock: p.stock ?? 99 }
MigratedProduct(p) == [p EXCEPT !.stock = Coalesce(p.stock, Num(DefaultStock))]

migrateProducts(ps) == [k \in 1..Len(ps) |-> MigratedProduct(ps[k])]

\* isAllSlipsCompleted without the length test
isAllSlipsCompletedNoLength(s) ==
    IF ~Truthy(s) THEN FALSE
    ELSE \A k \in 1..Len(s.val) : s.val[k].completed

isAllSlipsCompleted(s) ==
    IF ~Truthy(s) \/ Len(s.val) = 0 THEN FALSE
    ELSE \A k \in 1..Len(s.val) : s.val[k].completed

\* the slips generateSlips returns for n slips of no task
EmptySlips(n) == [k \in 1..n |-> NewSlip(k - 1, <<>>)]

JudgeCalls ==
    [fn : {"isAllSlipsCompleted"},
     slips : {Undefined, Null} \cup {Arr(EmptySlips(n)) : n \in 0..MaxJudged}]

InitCalls ==
    /\ pc = "start"
    /\ products = <<>>
    /\ SlipsIdle
    /\ HistoryIdle
    /\ args \in ScoreCalls \cup MigrateCalls \cup JudgeCalls
    /\ ret = Undefined

CallGetBestScore ==
    /\ pc = "start"
    /\ args.fn = "getBestScore"
    /\ ret' = getBestScore(args.history, args.userId, args.mode, args.options)
    /\ pc' = "returned"
    /\ UNCHANGED <<args>>
    /\ UNCHANGED slipVars
    /\ UNCHANGED histVars

CallMigrateHistory ==
    /\ pc = "start"
    /\ args.fn = "migrateHistory"
    /\ ret' = Arr(migrateHistory(args.x))
    /\ pc' = "returned"
    /\ UNCHANGED <<args>>
    /\ UNCHANGED slipVars
    /\ UNCHANGED histVars

CallMigrateProducts ==
    /\ pc = "start"
    /\ args.fn = "migrateProducts"
    /\ ret' = Arr(migrateProducts(args.x))
    /\ pc' = "returned"
    /\ UNCHANGED <<args>>
    /\ UNCHANGED slipVars
    /\ UNCHANGED histVars

\* the migrated data is loaded again and migrated again
MigrateAgain ==
    /\ pc = "returned"
    /\ args.fn \in {"migrateHistory", "migrateProducts"}
    /\ args' = [args EXCEPT !.x = ret.val]
    /\ ret' = IF args.fn = "migrateHistory"
              THEN Arr(migrateHistory(ret.val))
              ELSE Arr(migrateProducts(ret.val))
    /\ pc' = "again"
    /\ UNCHANGED slipVars
    /\ UNCHANGED histVars

CallIsAllSlipsCompleted ==
    /\ pc \in {"start", "updated"}
    /\ args.fn = "isAllSlipsCompleted"
    /\ ret' = isAllSlipsCompleted(args.slips)
    /\ pc' = "returned"
    /\ UNCHANGED <<args>>
    /\ UNCHANGED slipVars
    /\ UNCHANGED histVars

\* the UI sets or clears the completed flag of slip k
SetCompleted(k, b) ==
    /\ args.fn = "isAllSlipsCompleted"
    /\ Truthy(args.slips)
    /\ k \in 1..Len(args.slips.val)
    /\ args' = [args EXCEPT !.slips.val[k].completed = b]
    /\ pc' = "updated"
    /\ UNCHANGED <<ret>>
    /\ UNCHANGED slipVars
    /\ UNCHANGED histVars

NextCalls ==
    \/ CallGetBestScore
    \/ CallMigrateHistory
    \/ CallMigrateProducts
    \/ MigrateAgain
    \/ CallIsAllSlipsCompleted
    \/ \E k \in 1..MaxJudged, b \in BOOLEAN : SetCompleted(k, b)

SpecCalls == InitCalls /\ [][NextCalls]_vars

----------------------------------------------------------------------------
(* Properties of slip and task generation, under Spec *)

\* no two products of the list carry the same code
UniqueCodes(ps) ==
    \A a, b \in 1..Len(ps) : a # b => ps[a].code # ps[b].code

\* the stock field, or 99 when it is null or undefined
InitialStock(p) ==
    IF p.stock = Undefined \/ p.stock = Null THEN DefaultStock ELSE p.stock.val

RECURSIVE QuantityOf(_, _)
\* the sum of the quantities of the tasks of ts whose product has the code
QuantityOf(ts, code) ==
    IF Len(ts) = 0 THEN 0
    ELSE (IF ts[1].product.code = code THEN ts[1].quantity ELSE 0)
         + QuantityOf(Tail(ts), code)

RECURSIVE TasksOf(_)
\* the tasks of all slips of ss, in order
TasksOf(ss) == IF Len(ss) = 0 THEN <<>> ELSE ss[1].tasks \o TasksOf(Tail(ss))

\* the tasks generated so far: those of the pushed slips and of the open one
GeneratedTasks == TasksOf(slips) \o (IF pc = "inner" THEN tasks ELSE <<>>)

InGenerateSlips == pc \in {"outer", "inner", "done"}

\* C1: with unique product codes, for each product code the quantities of
\* all tasks of all slips for that code sum to at most the product's initial
\* effective stock (its stock field, or 99 when null or undefined).
C1_StockConserved ==
    UniqueCodes(products) =>
        \A k \in 1..Len(products) :
            QuantityOf(GeneratedTasks, products[k].code) <= InitialStock(products[k])

\* generateSlips returned two slips that together took the whole stock of a
\* product, part of it in each slip
C1_Witness ==
    /\ pc = "done"
    /\ UniqueCodes(products)
    /\ Len(slips) = 2
    /\ \E k \in 1..Len(products) :
          /\ InitialStock(products[k]) = 2
          /\ QuantityOf(slips[1].tasks, products[k].code) = 1
          /\ QuantityOf(slips[2].tasks, products[k].code) = 1

\* no two tasks of ts have the same product code
DistinctCodes(ts) ==
    \A a, b \in 1..Len(ts) : a # b => ts[a].product.code # ts[b].product.code

\* C2: in every slip of generateSlips, no two tasks have the same product
\* code (the same code may appear in different slips).
C2_DistinctCodesPerSlip ==
    /\ \A k \in 1..Len(slips) : DistinctCodes(slips[k].tasks)
    /\ pc = "inner" => DistinctCodes(tasks)

\* two returned slips of two tasks each, the same code in both slips
C2_Witness ==
    /\ pc = "done"
    /\ Len(slips) = 2
    /\ Len(slips[1].tasks) = 2
    /\ Len(slips[2].tasks) = 2
    /\ slips[1].tasks[1].product.code = slips[2].tasks[1].product.code

\* the stock generateTaskWithStock had for product p when the call began
StockBefore(p) ==
    IF p.code \in DOMAIN before THEN before[p.code] ELSE InitialStock(p)

\* C3: a task returned by generateRandomTask or generateTaskWithStock has an
\* integer quantity in 1..3 that does not exceed the stock available for its
\* product: the effective stock for generateRandomTask; the ledger value just
\* before the call, or the effective stock when the code is not in the
\* ledger, for generateTaskWithStock.
C3_QuantityBounded ==
    task.tag = "object" =>
        /\ task.val.quantity \in 1..3
        /\ pc = "randomTask" =>
              task.val.quantity <= InitialStock(task.val.product)
        /\ pc \in {"stockTask", "inner", "outer", "done"} =>
              task.val.quantity <= StockBefore(task.val.product)

\* a direct generateTaskWithStock call took the whole stock of a product
\* whose code the ledger did not hold
C3_Witness ==
    /\ pc = "stockTask"
    /\ task.tag = "object"
    /\ task.val.product.code \notin DOMAIN before
    /\ task.val.quantity = 2
    /\ InitialStock(task.val.product) = 2

NonNegative(ledger) == \A c \in DOMAIN ledger : ledger[c] >= 0

\* C4: during generateSlips every entry of the ledger is >= 0, and a
\* generateTaskWithStock call on a ledger whose entries are all >= 0 leaves
\* them all >= 0.
C4_LedgerNonNegative ==
    /\ InGenerateSlips => NonNegative(remainingStock)
    /\ NonNegative(before) => NonNegative(remainingStock)

\* a generateTaskWithStock call of generateSlips brought an entry down to 0
C4_Witness ==
    /\ pc = "inner"
    /\ \E c \in DOMAIN remainingStock : before[c] > 0 /\ remainingStock[c] = 0

\* 'slip-' + n, written out
SlipIdText == <<"slip-0", "slip-1", "slip-2", "slip-3", "slip-4">>

\* C5: generateSlips returns exactly slipCount slips; the slip at zero-based
\* index n has slipId "slip-" + n, slipNumber n + 1, completed false and at
\* most itemsPerSlip tasks, each with completed false and found null.
C5_SlipsShape ==
    pc = "done" =>
        /\ Len(slips) = slipCount
        /\ \A k \in 1..Len(slips) :
              /\ slips[k].slipId = SlipIdText[k]
              /\ slips[k].slipNumber = k
              /\ slips[k].completed = FALSE
              /\ Len(slips[k].tasks) <= itemsPerSlip
              /\ \A n \in 1..Len(slips[k].tasks) :
                    /\ slips[k].tasks[n].completed = FALSE
                    /\ slips[k].tasks[n].found = Null

\* two slips were returned although the stock ran out after the first
C5_Witness ==
    /\ pc = "done"
    /\ slipCount = 2
    /\ Len(slips) = 2
    /\ Len(slips[1].tasks) = 2
    /\ Len(slips[2].tasks) = 0

\* C10: with unique product codes, once generateTaskWithStock returned null
\* for a slip no task is added to that slip, and each slip has
\* min(itemsPerSlip, products with remaining stock > 0 when the slip began)
\* tasks.
C10_SlipLength ==
    [][UniqueCodes(products) =>
          /\ (pc = "inner" /\ pc' = "inner" /\ Len(tasks) < j) => tasks' = tasks
          /\ \A k \in 1..Len(slips') :
                Len(slips'[k].tasks) = Min(itemsPerSlip', slotsAtStart'[k])]_vars

\* a returned slip is shorter than itemsPerSlip: one product had stock left
C10_Witness ==
    /\ pc = "done"
    /\ UniqueCodes(products)
    /\ Len(products) = 2
    /\ itemsPerSlip = 2
    /\ Len(slips) = 2
    /\ Len(slips[1].tasks) = 2
    /\ Len(slips[2].tasks) = 1
    /\ slotsAtStart[2] = 1

----------------------------------------------------------------------------
(* Properties of trimHistory, under SpecHistory *)

\* a is the last Len(a) elements of b, in b's order
IsSuffix(a, b) ==
    /\ Len(a) <= Len(b)
    /\ \A k \in 1..Len(a) : a[k] = b[Len(b) - Len(a) + k]

\* C7: trimHistory(H) has length min(|H|, 500) and is the last min(|H|, 500)
\* elements of H in their order; after any sequence of append-then-trim
\* steps the stored history holds at most 500 entries, the most recently
\* appended ones in append order.
C7_TrimKeepsNewest ==
    /\ Len(history) = Min(Len(trimArg), 500)
    /\ IsSuffix(history, trimArg)
    /\ Len(history) <= 500
    /\ Len(history) = Min(Len(appended), 500)
    /\ IsSuffix(history, appended)

\* more than 500 entries were appended one by one: the oldest are gone
C7_Witness ==
    /\ Len(appended) = 502
    /\ Len(trimArg) = 501
    /\ Len(history) = 500
    /\ history[1] = 3
    /\ history[500] = 502

----------------------------------------------------------------------------
(* Properties of the pure functions, under SpecCalls *)

Returned(fn) == pc = "returned" /\ args.fn = fn

\* options.timeLimit is given: options is an object holding a timeLimit
\* other than undefined, null and 0
TimeLimitGiven == 
    /\ args.options # Undefined
    /\ args.options.val.timeLimit \notin {Undefined, Null, Num(0)}

\* the field getBestScore reports: totalAnswered for timeAttack with a
\* timeLimit given, score otherwise
BestField(h) ==
    IF args.mode = "timeAttack" /\ TimeLimitGiven THEN h.totalAnswered ELSE h.score

\* the entries of the history matching the userId and the mode
MatchingUserMode ==
    {k \in 1..Len(args.history) :
        /\ args.history[k].userId = args.userId
        /\ args.history[k].mode = Str(args.mode)}

\* those of them the timeLimit filter keeps
MatchingAll ==
    {k \in MatchingUserMode :
        (args.mode = "timeAttack" /\ TimeLimitGiven)
            => args.history[k].timeLimit = args.options.val.timeLimit}

\* C6 as stated: getBestScore returns null or the score (totalAnswered for
\* timeAttack with a timeLimit given) of some entry, no entry matching the
\* userId and the mode has a higher value of that field, and it returns null
\* when no entry matches.
C6_Original ==
    Returned("getBestScore") =>
        /\ \/ ret = Null
           \/ \E k \in 1..Len(args.history) : ret = Num(BestField(args.history[k]))
        /\ ret # Null =>
              \A k \in MatchingUserMode : BestField(args.history[k]) <= ret.val
        /\ MatchingUserMode = {} => ret = Null

\* C6 as amended: getBestScore returns null or the score (totalAnswered for
\* timeAttack with a timeLimit given) of some entry; no entry matching the
\* userId and the mode, and also the given timeLimit in the timeAttack case,
\* has a higher value of that field; it returns null exactly when no such
\* entry exists.
C6_BestScore ==
    Returned("getBestScore") =>
        /\ \/ ret = Null
           \/ \E k \in MatchingAll : ret = Num(BestField(args.history[k]))
        /\ ret # Null =>
              \A k \in MatchingAll : BestField(args.history[k]) <= ret.val
        /\ MatchingAll = {} <=> ret = Null

\* a timeAttack best for timeLimit 60 was returned while an entry of the same
\* user and mode, with another timeLimit, has a higher totalAnswered
C6_Witness ==
    /\ Returned("getBestScore")
    /\ args.mode = "timeAttack"
    /\ TimeLimitGiven
    /\ ret = Num(1)
    /\ \E k \in MatchingUserMode \ MatchingAll : args.history[k].totalAnswered = 3

\* C8: migrateHistory and migrateProducts are idempotent; migrateProducts
\* assigns stock 99 only to products whose stock is null or undefined and
\* keeps a stock of 0; migrateHistory assigns mode "normal" to entries
\* missing a mode and leaves all other fields unchanged.
C8_Migrations ==
    /\ pc = "again" => ret = Arr(args.x)
    /\ Returned("migrateProducts") =>
          /\ Len(ret.val) = Len(args.x)
          /\ \A k \in 1..Len(args.x) :
                /\ ret.val[k].code = args.x[k].code
                /\ ret.val[k].stock =
                      (IF args.x[k].stock \in {Undefined, Null}
                       THEN Num(99) ELSE args.x[k].stock)
    /\ Returned("migrateHistory") =>
          /\ Len(ret.val) = Len(args.x)
          /\ \A k \in 1..Len(args.x) :
                /\ args.x[k].mode = Undefined => ret.val[k].mode = Str("normal")
                /\ \A f \in DOMAIN args.x[k] \ {"mode"} :
                      ret.val[k][f] = args.x[k][f]

\* products migrated a second time: a stock of 0 kept, a missing one now 99
C8_Witness ==
    /\ pc = "again"
    /\ args.fn = "migrateProducts"
    /\ Len(ret.val) = 2
    /\ ret.val[1].stock = Num(0)
    /\ ret.val[2].stock = Num(99)
    /\ ret = Arr(args.x)

\* C9: isAllSlipsCompleted returns false for null, undefined and an empty
\* list, and otherwise true exactly when every slip is completed; so after
\* any updates of the completed flags it is true exactly when the list is
\* non-empty and no slip is incomplete.
C9_AllCompleted ==
    Returned("isAllSlipsCompleted") =>
        ret = (/\ args.slips \notin {Null, Undefined}
               /\ Len(args.slips.val) > 0
               /\ ~ \E k \in 1..Len(args.slips.val) :
                       args.slips.val[k].completed = FALSE)

\* every slip of a list of two was completed, and the answer is true
C9_Witness ==
    /\ Returned("isAllSlipsCompleted")
    /\ args.slips.tag = "array"
    /\ Len(args.slips.val) = 2
    /\ ret = TRUE

====
